---- MODULE Spec2Model ----
(***************************************************************************)
(* GitHubExport (src/git_hub_export.py): export of a GitHub repository's   *)
(* milestones, issues, pull requests and comments, with a checkpoint cache *)
(* on disk, a rate-limit guard before remote calls and two output modes.   *)
(*                                                                         *)
(* The program is sequential.  A run of main() is modelled as a walk of    *)
(* the control position pc through the methods of GitHubExport; every      *)
(* remote call and every invocation of the rate-limit guard is one step.   *)
(* The remote service (PyGithub and GitHub behind it) is the environment:  *)
(* its repository content is fixed at Init, and each remote call either    *)
(* answers or raises one of the exceptions the module imports.             *)
(* Integer division and str/unicode follow Python 2, the language of the   *)
(* source (_display_percentage multiplies a string by progress/2).         *)
(***************************************************************************)
EXTENDS Integers, Sequences, FiniteSets, TLC

\* ------------------------------------------------------------------ bounds
\* Largest page size the client is constructed with (the source's default is
\* 100; the class attribute is mutable and the model walks 1..MaxPerPage).
MaxPerPage == 2
\* Number of consecutive runs of main() against the same disk.
MaxRuns == 2
\* Largest entity id the remote service hands out.
MaxId == 8

\* ----------------------------------------------------------- Python values
\* Python's None (ids of the remote service are positive).
None == 0

\* dict.update: the keys of u override those of d.
Update(d, u) == u @@ d

\* ------------------------------------------------------- the remote service
\* Client-library objects.  raw_data is the dict the service returned.
Milestone(n) == [id |-> n, raw_data |-> [id |-> n]]
Comment(n) == [id |-> n, raw_data |-> [id |-> n]]
Issue(n, pr) ==
    [id |-> n, pull_request |-> pr,
     raw_data |-> IF pr THEN [id |-> n, pull_request |-> TRUE] ELSE [id |-> n]]

\* The synthetic milestone: the str 'none', which has no attribute id.
NoneMilestone == [str |-> "none"]

\* Repository contents the service may hold.  issues is keyed by milestone id
\* (None: the items without a milestone), comments by issue id.
Repositories ==
    { \* two milestones, one with an issue of two comments and a pull without
      \* comments, one empty, and one unmilestoned issue
      [milestones |-> <<Milestone(1), Milestone(2)>>,
       issues |-> (1 :> <<Issue(3, FALSE), Issue(4, TRUE)>>) @@ (2 :> <<>>)
                  @@ (None :> <<Issue(5, FALSE)>>),
       comments |-> (3 :> <<Comment(6), Comment(7)>>) @@ (4 :> <<>>)
                    @@ (5 :> <<>>)],
      \* nothing at all
      [milestones |-> <<>>,
       issues |-> (None :> <<>>),
       comments |-> <<>>],
      \* one milestone of three items, the middle one with three comments
      [milestones |-> <<Milestone(1)>>,
       issues |-> (1 :> <<Issue(3, TRUE), Issue(4, FALSE), Issue(5, TRUE)>>)
                  @@ (None :> <<>>),
       comments |-> (3 :> <<>>) @@ (4 :> <<Comment(6), Comment(7), Comment(8)>>)
                    @@ (5 :> <<>>)] }

\* --------------------------------------------------------------------- json
\* A JSON text is the sequence of its tokens.  The documents of the program
\* are dicts whose values are an id (number or null), the pull-request marker
\* or a list of dicts.
ListKeys == {"milestones", "issues", "pulls", "comments"}

NumberTokens == {ToString(n) : n \in 1..MaxId}

RECURSIVE DumpDict(_)
RECURSIVE DumpMembers(_, _)
RECURSIVE DumpList(_)

DumpValue(k, v) ==
    IF k \in ListKeys THEN <<"[">> \o DumpList(v) \o <<"]">>
    ELSE IF k = "pull_request" THEN <<IF v THEN "true" ELSE "false">>
    ELSE IF v = None THEN <<"null">> ELSE <<ToString(v)>>

DumpMembers(d, ks) ==
    IF ks = {} THEN <<>>
    ELSE LET k == CHOOSE x \in ks : TRUE
         IN <<k>> \o DumpValue(k, d[k]) \o DumpMembers(d, ks \ {k})

DumpDict(d) == <<"{">> \o DumpMembers(d, DOMAIN d) \o <<"}">>

DumpList(l) == IF l = <<>> THEN <<>> ELSE DumpDict(Head(l)) \o DumpList(Tail(l))

\* json.dump / json.dumps of a document.
json_dump(data) == DumpDict(data)

RECURSIVE ParseValue(_, _)
RECURSIVE ParseMembers(_, _, _)
RECURSIVE ParseElems(_, _, _)

\* Parse the value that starts at token p: [val, next].
ParseValue(toks, p) ==
    LET t == toks[p] IN
    IF t = "{" THEN ParseMembers(toks, p + 1, <<>>)
    ELSE IF t = "[" THEN ParseElems(toks, p + 1, <<>>)
    ELSE IF t = "true" THEN [val |-> TRUE, next |-> p + 1]
    ELSE IF t = "false" THEN [val |-> FALSE, next |-> p + 1]
    ELSE IF t = "null" THEN [val |-> None, next |-> p + 1]
    ELSE [val |-> CHOOSE n \in 1..MaxId : ToString(n) = t, next |-> p + 1]

ParseMembers(toks, p, acc) ==
    IF toks[p] = "}" THEN [val |-> acc, next |-> p + 1]
    ELSE LET r == ParseValue(toks, p + 1)
         IN ParseMembers(toks, r.next, (toks[p] :> r.val) @@ acc)

ParseElems(toks, p, acc) ==
    IF toks[p] = "]" THEN [val |-> acc, next |-> p + 1]
    ELSE LET r == ParseValue(toks, p)
         IN ParseElems(toks, r.next, Append(acc, r.val))

\* json.load of a file's text.
json_load(toks) == ParseValue(toks, 1).val

\* -------------------------------------------------------------------- state
VARIABLES
    per_page,       \* class attribute per_page, also the client's page size
    retrieve_temp,  \* class attribute retrieve_temp of the current run
    args,           \* the parsed command line: [print_json, clean_temp]
    remote,         \* the repository held by the remote service
    run,            \* number of runs of main() started so far
    disk,           \* the temp directory: file name -> JSON text
    temp_dir,       \* whether the (owner, repo) temp directory exists
    cwd,            \* the .json file names present in the working directory
    json_file,      \* the temp file GitHubExport-<time>.json
    zip_file,       \* the archive GitHubExport-<time>.zip
    stdout,         \* what the run has written to standard output
    pc,             \* control position of the run
    exc,            \* the exception that ended the run, "" if none
    ms,             \* _build_raw_milestones: [list, i, raw_milestones]
    iap,            \* get_issues_and_pulls: [all_issues, issues, pulls]
    bi,             \* _build_raw_issues: [phase, list, k, raw_issues, issues]
    fa,             \* _fetch_all: [kind, obj, raw_data, i, data, last_page, signal]
    guard,          \* the guard invocation not yet followed by a remote call
    call,           \* the latest remote call: [name, guarded]
    cleaned,        \* outcome of clean_temp in this run
    fetched,        \* the listings requested in this run: <<kind, id>>
    reads,          \* checkpoint files opened for reading in this run
    writes,         \* checkpoints put in this run: <<type, id>> -> data
    at_start,       \* what the run found: [disk, temp_dir, cwd]
    exports,        \* invocations of get_milestones in this run
    doc,            \* what get_milestones returned in this run, <<>> before
    prev,           \* the previous run: [doc, retrieve_temp]
    probe           \* the latest cache operation of the cache exerciser

confVars == <<per_page, retrieve_temp, args, remote, run>>
fsVars == <<disk, temp_dir, cwd, json_file, zip_file>>
ctxVars == <<ms, iap, bi, fa>>
obsVars == <<cleaned, fetched, reads, writes, at_start, exports, doc, prev, probe>>
vars == <<confVars, fsVars, ctxVars, obsVars, stdout, pc, exc, guard, call>>

NoFile == [exists |-> FALSE, text |-> <<>>]
NoContext == <<>>

\* ------------------------------------------------------------ rate limiting
\* Values the client's rate-limit status may report as remaining.
RemainingValues == {-100, -99, 50, 99, 100, 1000}

abs(n) == IF n < 0 THEN -n ELSE n

LowBudgetSigned(remaining) == remaining < 100

\* Whether the guard sleeps.
LowBudget(remaining) == abs(remaining) < 100

\* One invocation of the guard: the status is read once, and the guard sleeps
\* 60 * 2 seconds if the budget is low.
_check_rate_limit(remaining) ==
    [remaining |-> remaining,
     reads |-> 1,
     sleeps |-> IF LowBudget(remaining) THEN <<60 * 2>> ELSE <<>>]

\* ------------------------------------------------------------ the checkpoints
IdStr(obj_id) == IF obj_id = None THEN "None" ELSE ToString(obj_id)

file_name_untyped(obj_id, obj_type) == IdStr(obj_id) \o ".json"

\* '{}-{}.json'.format(obj_type, obj_id), within _get_temp_dir().
file_name(obj_id, obj_type) == obj_type \o "-" \o IdStr(obj_id) \o ".json"

GetTempFileNever(d, enabled, obj_id, obj_type) == <<>>

GetTempFileAlways(d, enabled, obj_id, obj_type) ==
    IF file_name(obj_id, obj_type) \in DOMAIN d
    THEN <<json_load(d[file_name(obj_id, obj_type)])>>
    ELSE <<>>

\* _get_temp_file on a directory d: <<>> for None, <<v>> for a loaded value.
GetTempFile(d, enabled, obj_id, obj_type) ==
    IF enabled /\ file_name(obj_id, obj_type) \in DOMAIN d
    THEN <<json_load(d[file_name(obj_id, obj_type)])>>
    ELSE <<>>

_get_temp_file(obj_id, obj_type) == GetTempFile(disk, retrieve_temp, obj_id, obj_type)

\* The file _get_temp_file opens, if any.
OpenedBy(obj_id, obj_type) ==
    IF _get_temp_file(obj_id, obj_type) # <<>>
    THEN {file_name(obj_id, obj_type)} ELSE {}

TruthyIfComments(stored_object) ==
    stored_object # <<>> /\ "comments" \in DOMAIN stored_object[1]

\* `if stored_object:` a loaded dict is true unless it is empty.
Truthy(stored_object) == stored_object # <<>> /\ DOMAIN stored_object[1] # {}

\* _set_temp_file: the directory after the call.
_set_temp_file(obj_id, obj_type, data) ==
    IF retrieve_temp
    THEN (file_name(obj_id, obj_type) :> json_dump(data)) @@ disk
    ELSE disk

\* The checkpoints the call records as put.
Put(obj_id, obj_type, data) ==
    IF retrieve_temp THEN (<<obj_type, obj_id>> :> data) @@ writes ELSE writes

\* ------------------------------------------------------------------ paging
Min(a, b) == IF a < b THEN a ELSE b

\* obj.get_page(i) of a paginated list: the i-th page of per_page elements.
get_page(obj, i) == SubSeq(obj, i * per_page + 1, Min((i + 1) * per_page, Len(obj)))

InnerCondOffByOne(j, last_page) == j <= per_page /\ ~last_page

\* Condition of the inner loop of _fetch_all.
InnerCond(j, last_page) == j < per_page /\ ~last_page

RECURSIVE InnerLoop(_, _, _, _, _)
\* The inner loop of _fetch_all from index j on: [data, last_page].
InnerLoop(page_data, raw_data, j, data, last_page) ==
    IF InnerCond(j, last_page)
    THEN IF j + 1 \in DOMAIN page_data
         THEN InnerLoop(page_data, raw_data, j + 1,
                        Append(data, IF raw_data THEN page_data[j + 1].raw_data
                                     ELSE page_data[j + 1]),
                        last_page)
         ELSE InnerLoop(page_data, raw_data, j + 1, data, TRUE)   \* IndexError
    ELSE [data |-> data, last_page |-> last_page]

\* ------------------------------------------------------------- partitioning
IsIssueInverted(item) == item.pull_request

\* `if not issue.pull_request`
IsIssue(item) == ~item.pull_request

\* The two lists get_issues_and_pulls returns for the fetched items.
get_issues_and_pulls(all_issues) ==
    [all_issues |-> all_issues,
     issues |-> SelectSeq(all_issues, IsIssue),
     pulls |-> SelectSeq(all_issues, LAMBDA item : ~IsIssue(item))]

\* ----------------------------------------------------------------- progress
\* _display_percentage: the bar ('#' * (progress / 2), given by its length)
\* and the percentage, as written to standard output.
_display_percentage(progress) ==
    <<"[", ToString(progress \div 2), "]", ToString(progress), "%">>

\* ------------------------------------------------------------------- errors
\* What a remote call can do besides answering.
Exceptions == {"BadCredentialsException", "UnknownObjectException", "SocketError"}
Outcomes == {"ok"} \cup Exceptions

HandledWithSocketError ==
    {"BadCredentialsException", "UnknownObjectException", "SocketError"}

\* The except clauses of main.
Handled == {"BadCredentialsException", "UnknownObjectException"}

Message(e) ==
    IF e = "BadCredentialsException" THEN "Error: Incorrect credentials"
    ELSE "Error: Incorrect GitHub owner or repository"

\* An exception raised inside main's try block unwinds to main.
main_except(e) ==
    /\ exc' = e
    /\ pc' = IF e \in Handled THEN "exit" ELSE "crashed"
    /\ stdout' = IF e \in Handled THEN Append(stdout, <<Message(e)>>) ELSE stdout

\* A remote call consumes the pending guard invocation.
Called(name) ==
    /\ call' = <<[name |-> name, guarded |-> guard # <<>>]>>
    /\ guard' = <<>>

\* --------------------------------------------------------------------- Init
Init ==
    /\ per_page \in 1..MaxPerPage
    /\ retrieve_temp = TRUE
    /\ args = [print_json |-> FALSE, clean_temp |-> FALSE]
    /\ remote \in Repositories
    /\ run = 0
    /\ disk = <<>>
    /\ temp_dir = FALSE
    /\ cwd \in SUBSET {file_name(None, "milestone")}
    /\ json_file = NoFile
    /\ zip_file = NoFile
    /\ stdout = <<>>
    /\ pc = "start"
    /\ exc = ""
    /\ ms = NoContext /\ iap = NoContext /\ bi = NoContext /\ fa = NoContext
    /\ guard = <<>>
    /\ call = <<>>
    /\ cleaned = "no"
    /\ fetched = {}
    /\ reads = {}
    /\ writes = <<>>
    /\ at_start = [disk |-> disk, temp_dir |-> temp_dir, cwd |-> cwd]
    /\ exports = 0
    /\ doc = <<>>
    /\ prev = [doc |-> <<>>, retrieve_temp |-> FALSE, completed |-> FALSE]
    /\ probe = <<>>

\* ------------------------------------------------------------------ actions
\* A process starts: main parses its arguments.  The class attribute
\* retrieve_temp is what the embedding code set it to (True by default).
main_start ==
    /\ pc \in {"start", "exit", "crashed"}
    /\ run < MaxRuns
    /\ \E pj \in BOOLEAN, ct \in BOOLEAN, rt \in BOOLEAN :
         /\ args' = [print_json |-> pj, clean_temp |-> ct]
         /\ retrieve_temp' = rt
    /\ run' = run + 1
    /\ prev' = IF pc = "start" THEN prev
               ELSE [doc |-> doc, retrieve_temp |-> retrieve_temp,
                     completed |-> pc = "exit" /\ exc = ""]
    /\ pc' = "init"
    /\ exc' = ""
    /\ stdout' = <<>>
    /\ json_file' = NoFile /\ zip_file' = NoFile
    /\ ms' = NoContext /\ iap' = NoContext /\ bi' = NoContext /\ fa' = NoContext
    /\ guard' = <<>> /\ call' = <<>>
    /\ cleaned' = "no" /\ fetched' = {} /\ reads' = {} /\ writes' = <<>>
    /\ at_start' = [disk |-> disk, temp_dir |-> temp_dir, cwd |-> cwd]
    /\ exports' = 0
    /\ doc' = <<>>
    /\ UNCHANGED <<per_page, remote, disk, temp_dir, cwd, probe>>

\* GitHubExport.__init__, called by main outside its try block: the
\* repository lookup is a remote call.
GitHubExport_init ==
    /\ pc = "init"
    /\ Called("get_repo")
    /\ \E o \in Outcomes :
         IF o = "ok"
         THEN /\ pc' = IF args.clean_temp THEN "clean" ELSE "output"
              /\ exc' = exc
         ELSE /\ pc' = "crashed"
              /\ exc' = o
    /\ UNCHANGED <<confVars, fsVars, ctxVars, obsVars, stdout>>

\* The files clean_temp lists: the *.json names of the temp directory.
ListedFiles == IF temp_dir THEN DOMAIN disk ELSE {}

\* clean_temp: os.remove(f) takes each listed name relative to the working
\* directory; the first name missing there raises OSError.  os.listdir gives
\* the names in any order.
clean_temp ==
    /\ pc = "clean"
    /\ IF ListedFiles \subseteq cwd
       THEN /\ cwd' = cwd \ ListedFiles
            /\ cleaned' = "returned"
            /\ pc' = "output"
            /\ exc' = exc
       ELSE /\ \E removed \in SUBSET (ListedFiles \cap cwd) : cwd' = cwd \ removed
            /\ cleaned' = "raised"
            /\ pc' = "crashed"
            /\ exc' = "OSError"
    /\ UNCHANGED <<confVars, disk, temp_dir, json_file, zip_file, ctxVars, stdout,
                   guard, call, fetched, reads, writes, at_start, exports, doc, prev, probe>>

\* main calls print_json, which calls get_milestones.
print_json_begin ==
    /\ pc = "output"
    /\ args.print_json
    /\ exports' = exports + 1
    /\ pc' = "gm_guard"
    /\ UNCHANGED <<confVars, fsVars, ctxVars, cleaned, fetched, reads, writes,
                   at_start, doc, prev, probe, stdout, exc, guard, call>>

create_zipfile_open_any_mode ==
    /\ pc = "output"
    /\ json_file' = [exists |-> TRUE, text |-> <<>>]
    /\ exports' = exports + 1
    /\ pc' = "gm_guard"
    /\ UNCHANGED <<confVars, disk, temp_dir, cwd, zip_file, ctxVars, cleaned,
                   fetched, reads, writes, at_start, doc, prev, probe,
                   stdout, exc, guard, call>>

create_zipfile_open_and_zip ==
    /\ pc = "output"
    /\ ~args.print_json
    /\ json_file' = [exists |-> TRUE, text |-> <<>>]
    /\ zip_file' = [exists |-> TRUE, text |-> <<>>]
    /\ exports' = exports + 1
    /\ pc' = "gm_guard"
    /\ UNCHANGED <<confVars, disk, temp_dir, cwd, ctxVars, cleaned,
                   fetched, reads, writes, at_start, doc, prev, probe,
                   stdout, exc, guard, call>>

\* main calls create_zipfile, which opens the temp JSON file for writing and
\* then calls get_milestones.
create_zipfile_open ==
    /\ pc = "output"
    /\ ~args.print_json
    /\ json_file' = [exists |-> TRUE, text |-> <<>>]
    /\ exports' = exports + 1
    /\ pc' = "gm_guard"
    /\ UNCHANGED <<confVars, disk, temp_dir, cwd, zip_file, ctxVars, cleaned,
                   fetched, reads, writes, at_start, doc, prev, probe,
                   stdout, exc, guard, call>>

\* Where each invocation of the guard continues.
AfterGuard(p) ==
    CASE p = "gm_guard" -> "gm_list"
      [] p = "iap_guard" -> "iap_list"
      [] p = "gc_guard" -> "gc_list"
      [] p = "fa_guard" -> "fa_page"

\* self._check_rate_limit() in get_milestones, get_issues_and_pulls,
\* get_comments and _fetch_all.
check_rate_limit ==
    /\ pc \in {"gm_guard", "iap_guard", "gc_guard", "fa_guard"}
    /\ \E remaining \in RemainingValues : guard' = <<_check_rate_limit(remaining)>>
    /\ pc' = AfterGuard(pc)
    /\ UNCHANGED <<confVars, fsVars, ctxVars, obsVars, stdout, exc, call>>

\* The start of _fetch_all(obj, raw_data).
FetchAllOf(kind, obj, raw_data) ==
    [kind |-> kind, obj |-> obj, raw_data |-> raw_data,
     i |-> 0, data |-> <<>>, last_page |-> FALSE, signal |-> ""]

\* A listing call (name) for the entity key, answering the paginated list obj.
Listing(name, kind, key, obj, raw_data) ==
    /\ Called(name)
    /\ fetched' = fetched \cup {<<kind, key>>}
    /\ \E o \in Outcomes :
         IF o = "ok"
         THEN /\ fa' = FetchAllOf(kind, obj, raw_data)
              /\ pc' = "fa_guard"
              /\ UNCHANGED <<exc, stdout>>
         ELSE /\ main_except(o)
              /\ fa' = fa
    /\ UNCHANGED <<confVars, fsVars, ms, iap, bi, cleaned, reads, writes, at_start, exports,
                   doc, prev, probe>>

\* The milestone _build_raw_milestones is at, its id, and the issue
\* _build_raw_issues is at.
milestone == ms.list[ms.i + 1]
milestone_id == IF "id" \in DOMAIN milestone THEN milestone.id ELSE None
issue == bi.list[bi.k + 1]

\* get_milestones: self.repo.get_milestones(state=self.state).
get_milestones_list ==
    /\ pc = "gm_list"
    /\ Listing("get_milestones", "milestones", None, remote.milestones, FALSE)

\* get_issues_and_pulls: self.repo.get_issues(milestone=milestone, ...).
get_issues_list ==
    /\ pc = "iap_list"
    /\ Listing("get_issues", "issues", milestone_id, remote.issues[milestone_id], FALSE)

\* get_comments: issue.get_comments().
get_comments_list ==
    /\ pc = "gc_list"
    /\ Listing("get_comments", "comments", issue.id, remote.comments[issue.id], TRUE)

\* Where _fetch_all returns to.
ReturnTo(kind) ==
    CASE kind = "milestones" -> "gm_ret"
      [] kind = "issues" -> "iap_ret"
      [] kind = "comments" -> "gc_ret"

FetchTurnIgnoringTypeError(f, o) ==
    LET r == IF o = "TypeError"
             THEN [data |-> f.data, last_page |-> FALSE]
             ELSE InnerLoop(get_page(f.obj, f.i), f.raw_data, 0, f.data, FALSE)
    IN [f EXCEPT !.data = r.data, !.last_page = r.last_page, !.i = f.i + 1,
                 !.signal = IF r.last_page THEN "IndexError" ELSE ""]

\* One turn of the outer loop of _fetch_all after the guard: the page
\* request, answered (ok) or refused with TypeError, and the inner loop.
FetchTurn(f, o) ==
    LET r == IF o = "TypeError"
             THEN [data |-> f.data, last_page |-> TRUE]
             ELSE InnerLoop(get_page(f.obj, f.i), f.raw_data, 0, f.data, FALSE)
    IN [f EXCEPT !.data = r.data, !.last_page = r.last_page, !.i = f.i + 1,
                 !.signal = IF o = "TypeError" THEN "TypeError"
                            ELSE IF r.last_page THEN "IndexError" ELSE ""]

\* The service refuses a page with TypeError only when no element is left.
MayTypeError(f) == f.i * per_page >= Len(f.obj)

fetch_all_page ==
    /\ pc = "fa_page"
    /\ Called("get_page")
    /\ \E o \in Outcomes \cup {"TypeError"} :
         /\ o = "TypeError" => MayTypeError(fa)
         /\ IF o \in {"ok", "TypeError"}
            THEN /\ fa' = FetchTurn(fa, o)
                 /\ pc' = IF fa'.last_page THEN ReturnTo(fa.kind) ELSE "fa_guard"
                 /\ UNCHANGED <<exc, stdout>>
            ELSE /\ main_except(o)
                 /\ fa' = fa
    /\ UNCHANGED <<confVars, fsVars, ms, iap, bi, obsVars>>

WithNoneFirst(milestones) == <<NoneMilestone>> \o milestones

\* milestones.append('none')
WithNone(milestones) == Append(milestones, NoneMilestone)

\* get_milestones after _fetch_all returned: enter _build_raw_milestones.
get_milestones_build ==
    /\ pc = "gm_ret"
    /\ ms' = [list |-> WithNone(fa.data), i |-> 0, raw_milestones |-> <<>>]
    /\ pc' = "ms_loop"
    /\ UNCHANGED <<confVars, fsVars, iap, bi, fa, obsVars, stdout, exc, guard, call>>

\* The head of the loop of _build_raw_milestones: the loop ends and
\* get_milestones returns the document, or the checkpoint of the milestone is
\* looked up; a hit is appended, a miss goes on to fetch.
build_raw_milestones_next ==
    /\ pc = "ms_loop"
    /\ IF ms.i = Len(ms.list)
       THEN /\ doc' = <<[milestones |-> ms.raw_milestones]>>
            /\ pc' = "emit"
            /\ UNCHANGED <<ms, reads, stdout>>
       ELSE LET stored_object == _get_temp_file(milestone_id, "milestone") IN
            /\ reads' = reads \cup OpenedBy(milestone_id, "milestone")
            /\ doc' = doc
            /\ IF Truthy(stored_object)
               THEN /\ ms' = [ms EXCEPT !.raw_milestones = Append(@, stored_object[1]),
                                        !.i = @ + 1]
                    /\ UNCHANGED <<pc, stdout>>
               ELSE /\ stdout' = Append(stdout,
                          _display_percentage(((ms.i + 1) * 100) \div Len(ms.list)))
                    /\ pc' = "iap_guard"
                    /\ ms' = ms
    /\ UNCHANGED <<confVars, fsVars, iap, bi, fa, cleaned, fetched, writes, at_start, exports,
                   prev, probe, exc, guard, call>>

\* get_issues_and_pulls after _fetch_all returned: partition, then enter
\* _build_raw_issues(issues).
get_issues_and_pulls_return ==
    /\ pc = "iap_ret"
    /\ iap' = get_issues_and_pulls(fa.data)
    /\ bi' = [phase |-> "issues", list |-> iap'.issues, k |-> 0,
              raw_issues |-> <<>>, issues |-> <<>>]
    /\ pc' = "bi_loop"
    /\ UNCHANGED <<confVars, fsVars, ms, fa, obsVars, stdout, exc, guard, call>>

\* The head of the loop of _build_raw_issues: the loop ends (the issues are
\* followed by the pulls, the pulls by the milestone's update), or the
\* checkpoint of the issue is looked up.
build_raw_issues_next ==
    /\ pc = "bi_loop"
    /\ IF bi.k = Len(bi.list)
       THEN /\ IF bi.phase = "issues"
               THEN /\ bi' = [phase |-> "pulls", list |-> iap.pulls, k |-> 0,
                              raw_issues |-> <<>>, issues |-> bi.raw_issues]
                    /\ pc' = pc
               ELSE /\ pc' = "ms_store"
                    /\ bi' = bi
            /\ reads' = reads
       ELSE LET stored_object == _get_temp_file(issue.id, "issue") IN
            /\ reads' = reads \cup OpenedBy(issue.id, "issue")
            /\ IF Truthy(stored_object)
               THEN /\ bi' = [bi EXCEPT !.raw_issues = Append(@, stored_object[1]),
                                        !.k = @ + 1]
                    /\ pc' = pc
               ELSE /\ pc' = "gc_guard"
                    /\ bi' = bi
    /\ UNCHANGED <<confVars, fsVars, ms, iap, fa, cleaned, fetched, writes, at_start, exports,
                   doc, prev, probe, stdout, exc, guard, call>>

RawIssueNoComments(i, comments) == Update(i.raw_data, [comments |-> <<>>])

\* raw_issue = issue.raw_data updated with the fetched comments.
RawIssue(i, comments) == Update(i.raw_data, [comments |-> comments])

\* _build_raw_issues after get_comments returned: the issue is resolved,
\* appended and checkpointed.
build_raw_issues_store ==
    /\ pc = "gc_ret"
    /\ LET raw_issue == RawIssue(issue, fa.data) IN
         /\ bi' = [bi EXCEPT !.raw_issues = Append(@, raw_issue), !.k = @ + 1]
         /\ disk' = _set_temp_file(issue.id, "issue", raw_issue)
         /\ writes' = Put(issue.id, "issue", raw_issue)
    /\ temp_dir' = (temp_dir \/ retrieve_temp)
    /\ pc' = "bi_loop"
    /\ UNCHANGED <<confVars, cwd, json_file, zip_file, ms, iap, fa, cleaned,
                   fetched, reads, at_start, exports, doc, prev, probe, stdout, exc, guard, call>>

RawMilestoneNoPulls(m, m_id, issues, pulls) ==
    Update(IF m # NoneMilestone THEN m.raw_data ELSE [id |-> m_id],
           [issues |-> issues, pulls |-> <<>>])

\* raw_milestone updated with the resolved issues and pulls.
RawMilestone(m, m_id, issues, pulls) ==
    Update(IF m # NoneMilestone THEN m.raw_data ELSE [id |-> m_id],
           [issues |-> issues, pulls |-> pulls])

\* _build_raw_milestones after both _build_raw_issues calls returned: the
\* milestone is resolved, appended and checkpointed.
build_raw_milestones_store ==
    /\ pc = "ms_store"
    /\ LET raw_milestone == RawMilestone(milestone, milestone_id, bi.issues, bi.raw_issues) IN
         /\ ms' = [ms EXCEPT !.raw_milestones = Append(@, raw_milestone), !.i = @ + 1]
         /\ disk' = _set_temp_file(milestone_id, "milestone", raw_milestone)
         /\ writes' = Put(milestone_id, "milestone", raw_milestone)
    /\ temp_dir' = (temp_dir \/ retrieve_temp)
    /\ pc' = "ms_loop"
    /\ UNCHANGED <<confVars, cwd, json_file, zip_file, iap, bi, fa, cleaned,
                   fetched, reads, at_start, exports, doc, prev, probe, stdout, exc, guard, call>>

\* print_json after get_milestones returned: the document is printed.
print_json ==
    /\ pc = "emit"
    /\ args.print_json
    /\ stdout' = Append(stdout, json_dump(doc[1]))
    /\ pc' = "exit"
    /\ UNCHANGED <<confVars, fsVars, ctxVars, obsVars, exc, guard, call>>

\* create_zipfile after get_milestones returned: json.dump into the temp file.
create_zipfile_dump ==
    /\ pc = "emit"
    /\ ~args.print_json
    /\ json_file' = [exists |-> TRUE, text |-> json_dump(doc[1])]
    /\ pc' = "zip"
    /\ UNCHANGED <<confVars, disk, temp_dir, cwd, zip_file, ctxVars, obsVars,
                   stdout, exc, guard, call>>

\* create_zipfile: the temp file is written into the archive.
create_zipfile_zip ==
    /\ pc = "zip"
    /\ zip_file' = [exists |-> TRUE, text |-> json_file.text]
    /\ pc' = "exit"
    /\ UNCHANGED <<confVars, disk, temp_dir, cwd, json_file, ctxVars, obsVars,
                   stdout, exc, guard, call>>

Next ==
    \/ main_start
    \/ GitHubExport_init
    \/ clean_temp
    \/ print_json_begin
    \/ create_zipfile_open
    \/ check_rate_limit
    \/ get_milestones_list
    \/ get_issues_list
    \/ get_comments_list
    \/ fetch_all_page
    \/ get_milestones_build
    \/ build_raw_milestones_next
    \/ get_issues_and_pulls_return
    \/ build_raw_issues_next
    \/ build_raw_issues_store
    \/ build_raw_milestones_store
    \/ print_json
    \/ create_zipfile_dump
    \/ create_zipfile_zip

Spec == Init /\ [][Next]_vars

\* --------------------------------------------------- the checkpoint cache alone
\* _set_temp_file and _get_temp_file applied in any order to ids, types and
\* documents of the program, with caching enabled.
CacheIds == {None, 1}
CacheTypes == {"issue", "milestone"}
CacheData ==
    { [id |-> 1, comments |-> <<>>],
      [id |-> 1, pull_request |-> TRUE, comments |-> <<[id |-> 2]>>],
      [id |-> None, issues |-> <<[id |-> 1, comments |-> <<[id |-> 2]>>]>>,
       pulls |-> <<>>] }

CacheInit ==
    /\ per_page = 1
    /\ retrieve_temp = TRUE
    /\ args = [print_json |-> FALSE, clean_temp |-> FALSE]
    /\ remote \in {r \in Repositories : r.milestones = <<>>}
    /\ run = 0
    /\ disk = <<>>
    /\ temp_dir = FALSE
    /\ cwd = {}
    /\ json_file = NoFile
    /\ zip_file = NoFile
    /\ stdout = <<>>
    /\ pc = "cache"
    /\ exc = ""
    /\ ms = NoContext /\ iap = NoContext /\ bi = NoContext /\ fa = NoContext
    /\ guard = <<>>
    /\ call = <<>>
    /\ cleaned = "no"
    /\ fetched = {}
    /\ reads = {}
    /\ writes = <<>>
    /\ at_start = [disk |-> disk, temp_dir |-> temp_dir, cwd |-> cwd]
    /\ exports = 0
    /\ doc = <<>>
    /\ prev = [doc |-> <<>>, retrieve_temp |-> FALSE, completed |-> FALSE]
    /\ probe = <<>>

cache_put ==
    /\ pc = "cache"
    /\ \E obj_id \in CacheIds, obj_type \in CacheTypes, data \in CacheData :
         /\ disk' = _set_temp_file(obj_id, obj_type, data)
         /\ probe' = <<[op |-> "put", obj_id |-> obj_id, obj_type |-> obj_type,
                        data |-> data,
                        stored_before |-> _get_temp_file(obj_id, obj_type)]>>
    /\ temp_dir' = (temp_dir \/ retrieve_temp)
    /\ UNCHANGED <<confVars, cwd, json_file, zip_file, ctxVars, cleaned, fetched,
                   reads, writes, at_start, exports, doc, prev, stdout, pc, exc, guard, call>>

cache_get ==
    /\ pc = "cache"
    /\ \E obj_id \in CacheIds, obj_type \in CacheTypes :
         probe' = <<[op |-> "get", obj_id |-> obj_id, obj_type |-> obj_type,
                     data |-> _get_temp_file(obj_id, obj_type),
                     stored_before |-> _get_temp_file(obj_id, obj_type)]>>
    /\ UNCHANGED <<confVars, fsVars, ctxVars, cleaned, fetched, reads, writes,
                   at_start, exports, doc, prev, stdout, pc, exc, guard, call>>

CacheNext == cache_put \/ cache_get

SpecCache == CacheInit /\ [][CacheNext]_vars

\* ------------------------------------------------------------------- claims
Range(s) == {s[n] : n \in DOMAIN s}

\* Position of x in the sequence s.
Pos(x, s) == CHOOSE n \in DOMAIN s : s[n] = x

\* The run is at a point where _fetch_all has just returned.
FetchAllReturned == pc \in {"gm_ret", "iap_ret", "gc_ret"}

\* C1: when _fetch_all returns, its result has exactly the elements of the
\* paginated list (their raw_data when raw_data is set), each once and in the
\* list's order, whatever the list's length and the page size.
C1_FetchAllComplete ==
    FetchAllReturned =>
        /\ Len(fa.data) = Len(fa.obj)
        /\ \A n \in 1..Len(fa.obj) :
             fa.data[n] = IF fa.raw_data THEN fa.obj[n].raw_data ELSE fa.obj[n]

\* C1 witness: a list of per_page + 1 elements was drained over a page
\* boundary with pages of two.
C1_Witness ==
    /\ FetchAllReturned
    /\ per_page = 2
    /\ Len(fa.obj) = per_page + 1
    /\ Len(fa.data) = 3

\* The ids of the document's entries, and what the service holds for them.
RemoteKeys == [n \in 1..Len(remote.milestones) + 1 |->
                 IF n <= Len(remote.milestones) THEN remote.milestones[n].id ELSE None]

EntryItems(entry) == entry.issues \o entry.pulls

RemoteComments(item_id) ==
    [n \in 1..Len(remote.comments[item_id]) |-> remote.comments[item_id][n].raw_data]

\* C2: a run that found no checkpoint returns a document with one entry per
\* remote milestone plus the 'none' entry; the issues and pulls of an entry
\* are together exactly the items the service lists for it, each once, and
\* every item carries exactly its comments in order.
C2_EmptyCacheDocument ==
    (doc # <<>> /\ DOMAIN at_start.disk = {}) =>
        LET entries == doc[1].milestones IN
        /\ Len(entries) = Len(remote.milestones) + 1
        /\ \A n \in 1..Len(entries) :
             /\ entries[n].id = RemoteKeys[n]
             /\ Len(EntryItems(entries[n])) = Len(remote.issues[RemoteKeys[n]])
             /\ {item.id : item \in Range(EntryItems(entries[n]))}
                  = {item.id : item \in Range(remote.issues[RemoteKeys[n]])}
             /\ \A item \in Range(EntryItems(entries[n])) :
                  item.comments = RemoteComments(item.id)

\* C2 witness: the scenario of two milestones (an issue of two comments and a
\* pull without comments; nothing) and one unmilestoned issue was exported
\* from an empty cache.
C2_Witness ==
    /\ doc # <<>>
    /\ DOMAIN at_start.disk = {}
    /\ Len(remote.milestones) = 2
    /\ Len(doc[1].milestones) = 3
    /\ Len(doc[1].milestones[1].issues) = 1
    /\ Len(doc[1].milestones[1].issues[1].comments) = 2
    /\ Len(doc[1].milestones[1].pulls) = 1
    /\ Len(doc[1].milestones[3].issues) = 1

\* C3: in every returned document the last entry is the 'none' milestone and
\* the entries before it are the remote milestones in the service's order.
C3_NoneLast ==
    doc # <<>> =>
        LET entries == doc[1].milestones IN
        /\ Len(entries) = Len(remote.milestones) + 1
        /\ entries[Len(entries)].id = None
        /\ \A n \in 1..Len(remote.milestones) : entries[n].id = remote.milestones[n].id

\* C3 witness: a document of three entries was returned by a run that hit
\* some checkpoints and missed others.
C3_Witness ==
    /\ doc # <<>>
    /\ Len(doc[1].milestones) = 3
    /\ reads # {}
    /\ DOMAIN writes # {}

\* C4: the two lists of get_issues_and_pulls partition the fetched items: an
\* item is in pulls iff it carries the pull-request marker, otherwise in
\* issues, never in both, none is lost, and each list keeps the input's order.
C4_Partition ==
    iap # NoContext =>
        /\ \A item \in Range(iap.all_issues) :
             /\ (item \in Range(iap.pulls)) <=> item.pull_request
             /\ (item \in Range(iap.issues)) <=> ~item.pull_request
        /\ Range(iap.issues) \cup Range(iap.pulls) = Range(iap.all_issues)
        /\ Len(iap.issues) + Len(iap.pulls) = Len(iap.all_issues)
        /\ \A l \in {iap.issues, iap.pulls} : \A a, b \in DOMAIN l :
             a < b => Pos(l[a], iap.all_issues) < Pos(l[b], iap.all_issues)

\* C4 witness: a mixed list of one issue between two pulls was partitioned.
C4_Witness ==
    /\ iap # NoContext
    /\ Len(iap.issues) = 1
    /\ Len(iap.pulls) = 2

\* The keys of the cache exerciser.
CacheKeys == CacheIds \X CacheTypes

\* C5: with caching enabled, right after _set_temp_file(id, type, data) a
\* _get_temp_file(id, type) returns data, even when another value was stored
\* there before, and what it returns for every other (id, type) is what it
\* returned before the put.
C5_PutThenGet ==
    [][ (probe' # <<>> /\ probe'[1].op = "put") =>
          LET p == probe'[1] IN
          /\ GetTempFile(disk', retrieve_temp', p.obj_id, p.obj_type) = <<p.data>>
          /\ \A k \in CacheKeys \ {<<p.obj_id, p.obj_type>>} :
               GetTempFile(disk', retrieve_temp', k[1], k[2])
                 = GetTempFile(disk, retrieve_temp, k[1], k[2]) ]_vars

\* C5 witness: a put replaced a different value stored under the same key
\* while another key held a value.
C5_Witness ==
    /\ probe # <<>>
    /\ probe[1].op = "put"
    /\ probe[1].stored_before # <<>>
    /\ probe[1].stored_before # <<probe[1].data>>
    /\ _get_temp_file(probe[1].obj_id, probe[1].obj_type) = <<probe[1].data>>
    /\ \E k \in CacheKeys \ {<<probe[1].obj_id, probe[1].obj_type>>} :
         _get_temp_file(k[1], k[2]) # <<>>

\* The checkpoint a listing would have been answered from.
CheckpointOf(listing) ==
    file_name(listing[2], IF listing[1] = "issues" THEN "milestone" ELSE "issue")

\* C6: a run with caching enabled that follows a completed run with caching
\* enabled returns the same document, and requests no issue list and no
\* comment list of an id whose checkpoint the earlier run left.
C6_SecondRunIdentical ==
    (retrieve_temp /\ prev.completed /\ prev.retrieve_temp) =>
        /\ doc # <<>> => doc = prev.doc
        /\ \A listing \in fetched :
             listing[1] \in {"issues", "comments"}
                => CheckpointOf(listing) \notin DOMAIN at_start.disk

\* C6 witness: the second of two completed caching runs returned its
\* document of three entries.
C6_Witness ==
    /\ retrieve_temp /\ prev.completed /\ prev.retrieve_temp
    /\ doc # <<>>
    /\ Len(doc[1].milestones) = 3
    /\ Len(doc[1].milestones[1].issues[1].comments) = 2

\* C7: an invocation of the guard reads the status once; it sleeps, once and
\* for 120 seconds, exactly when the remaining count is strictly between
\* -100 and 100.
C7_GuardPauses ==
    guard # <<>> =>
        /\ guard[1].reads = 1
        /\ (guard[1].remaining \in -99..99) => guard[1].sleeps = <<120>>
        /\ (guard[1].remaining \notin -99..99) => guard[1].sleeps = <<>>

\* C7 witness: the guard paused at a remaining count of 99.
C7_Witness ==
    /\ guard # <<>>
    /\ guard[1].remaining = 99
    /\ guard[1].sleeps = <<120>>

\* C8 (as claimed): a remote call that fails with bad credentials or an
\* unknown repository ends the run normally with the message printed.
C8_ErrorsHandled ==
    exc \in Handled =>
        /\ pc = "exit"
        /\ stdout # <<>>
        /\ stdout[Len(stdout)] = <<Message(exc)>>

\* The files of the checkpoints this run has put.
PutFiles == {file_name(k[2], k[1]) : k \in DOMAIN writes}

\* C9 (as claimed): clean_temp returns having emptied the temp directory and
\* removed nothing else, so that the export reads no checkpoint and the
\* directory holds only what the run itself put.
C9_CleanTempClears ==
    cleaned # "no" =>
        /\ cleaned = "returned"
        /\ cwd = at_start.cwd
        /\ DOMAIN disk \subseteq PutFiles
        /\ reads = {}

\* The listings of a whole traversal of the remote repository.
AllListings ==
    {<<"issues", RemoteKeys[n]>> : n \in DOMAIN RemoteKeys}
      \cup {<<"comments", item.id>> :
              item \in UNION {Range(remote.issues[k]) : k \in DOMAIN remote.issues}}

\* C10: with retrieve_temp disabled a run opens no checkpoint, leaves the
\* checkpoint files and their directory as it found them, and by the time it
\* returns the document has requested the issue list of every milestone and
\* the comment list of every issue and pull.
C10_NoCacheRefetches ==
    ~retrieve_temp =>
        /\ reads = {}
        /\ disk = at_start.disk
        /\ temp_dir = at_start.temp_dir
        /\ doc # <<>> => AllListings \subseteq fetched

\* C10 witness: a run with retrieve_temp disabled returned the document of
\* a repository whose checkpoints were all on disk.
C10_Witness ==
    /\ ~retrieve_temp
    /\ doc # <<>>
    /\ Len(remote.milestones) = 2
    /\ file_name(None, "milestone") \in DOMAIN disk
    /\ file_name(3, "issue") \in DOMAIN disk

\* A text on standard output that is a JSON document (not the progress bar,
\* not an error message).
IsDocumentText(t) == t # <<>> /\ t[1] = "{"

PrintedDocuments == {n \in DOMAIN stdout : IsDocumentText(stdout[n])}

\* The run went through main's try block to its end.
Completed == pc = "exit" /\ exc = ""

\* C11: get_milestones is invoked at most once in a run and exactly once in
\* a completed one; with print_json set no temp JSON file and no archive
\* ever exists and a completed run has printed the document, once; without
\* it nothing is ever printed as a document and a completed run has written
\* the archive holding the document.
C11_OneOutputMode ==
    /\ exports <= 1
    /\ args.print_json => (~json_file.exists /\ ~zip_file.exists)
    /\ ~args.print_json => PrintedDocuments = {}
    /\ Completed =>
         /\ exports = 1
         /\ doc # <<>>
         /\ IF args.print_json
            THEN /\ PrintedDocuments = {Len(stdout)}
                 /\ stdout[Len(stdout)] = json_dump(doc[1])
            ELSE /\ zip_file.exists
                 /\ zip_file.text = json_dump(doc[1])

\* C11 witness: a run with print_json completed, the document of three
\* entries printed and no file written.
C11_Witness ==
    /\ Completed
    /\ args.print_json
    /\ Len(doc[1].milestones) = 3
    /\ stdout[Len(stdout)] = json_dump(doc[1])
    /\ ~zip_file.exists

\* The run is inside the outer loop of _fetch_all.
InFetchLoop == pc \in {"fa_guard", "fa_page"}

\* C12: _fetch_all makes a bounded number of turns: while it loops no end
\* signal has been seen and every page so far was full; it returns after
\* exactly Len(obj) \div per_page + 1 page requests, on an IndexError or a
\* TypeError; and once a signal has set last_page, the call requests no page
\* and reads no element any more (its state changes only when another
\* _fetch_all or another run starts).
C12_FetchAllTerminates ==
    /\ [](fa # NoContext =>
            /\ InFetchLoop => (~fa.last_page /\ fa.signal = ""
                                 /\ fa.i * per_page <= Len(fa.obj))
            /\ FetchAllReturned =>
                 /\ fa.last_page
                 /\ fa.signal \in {"IndexError", "TypeError"}
                 /\ fa.i = (Len(fa.obj) \div per_page) + 1)
    /\ [][(fa # NoContext /\ fa.last_page) =>
             \/ fa' = fa
             \/ fa' = NoContext
             \/ (fa'.i = 0 /\ ~fa'.last_page /\ fa'.data = <<>>)]_vars

\* C12 witness: the very first page request raised TypeError and _fetch_all
\* returned the empty list after that one request.
C12_Witness ==
    /\ FetchAllReturned
    /\ fa.signal = "TypeError"
    /\ fa.i = 1
    /\ fa.data = <<>>

\* C13 (as claimed): every remote call is made with an invocation of the
\* guard pending, that is, the guard ran after the previous remote call.
C13_EveryCallGuarded ==
    call # <<>> => call[1].guarded

\* The document a checkpoint file held when the run started.
StoredAtStart(f) == json_load(at_start.disk[f])

\* C14: in a run with caching enabled, a checkpoint that the run found is
\* never put again and keeps its content, no issue list or comment list is
\* requested for its id, and the entry the returned document has for that id
\* (a milestone entry, or an issue or pull inside one) is the stored
\* document.
C14_CheckpointAuthoritative ==
    retrieve_temp =>
        /\ \A k \in DOMAIN writes : file_name(k[2], k[1]) \notin DOMAIN at_start.disk
        /\ \A f \in DOMAIN at_start.disk : f \in DOMAIN disk /\ disk[f] = at_start.disk[f]
        /\ \A listing \in fetched :
             listing[1] \in {"issues", "comments"}
                => CheckpointOf(listing) \notin DOMAIN at_start.disk
        /\ doc # <<>> =>
             \A entry \in Range(doc[1].milestones) :
               /\ file_name(entry.id, "milestone") \in DOMAIN at_start.disk
                    => entry = StoredAtStart(file_name(entry.id, "milestone"))
               /\ \A item \in Range(EntryItems(entry)) :
                    file_name(item.id, "issue") \in DOMAIN at_start.disk
                       => item = StoredAtStart(file_name(item.id, "issue"))

\* C14 witness: a caching run returned its document after it took issue 3
\* from its checkpoint and resolved and put milestone 1 itself.
C14_Witness ==
    /\ retrieve_temp
    /\ doc # <<>>
    /\ file_name(3, "issue") \in reads
    /\ <<"milestone", 1>> \in DOMAIN writes

\* A stored issue or pull document with the complete comments of its id.
ResolvedIssue(d, item_id) ==
    /\ d.id = item_id
    /\ d.comments = RemoteComments(item_id)

\* A stored milestone document with all the issues and all the pulls the
\* service lists for its key, each resolved.
ResolvedMilestone(d, key) ==
    /\ d.id = key
    /\ Len(d.issues) + Len(d.pulls) = Len(remote.issues[key])
    /\ \A item \in Range(remote.issues[key]) :
         \E stored \in Range(IF item.pull_request THEN d.pulls ELSE d.issues) :
            ResolvedIssue(stored, item.id)

MilestoneFiles == {file_name(RemoteKeys[n], "milestone") : n \in DOMAIN RemoteKeys}
IssueFiles == {file_name(item_id, "issue") : item_id \in DOMAIN remote.comments}

\* C15: in every state, also after a run was aborted at a remote call, each
\* checkpoint on disk is a fully resolved entity: a milestone file holds all
\* issues and pulls of its milestone with their complete comments, an issue
\* file the complete comments of its issue; and when a run has put a
\* milestone the checkpoints of all its issues and pulls are on disk.
C15_CheckpointsResolved ==
    /\ DOMAIN disk \subseteq MilestoneFiles \cup IssueFiles
    /\ \A n \in DOMAIN RemoteKeys :
         file_name(RemoteKeys[n], "milestone") \in DOMAIN disk
            => ResolvedMilestone(json_load(disk[file_name(RemoteKeys[n], "milestone")]),
                                 RemoteKeys[n])
    /\ \A item_id \in DOMAIN remote.comments :
         file_name(item_id, "issue") \in DOMAIN disk
            => ResolvedIssue(json_load(disk[file_name(item_id, "issue")]), item_id)
    /\ \A k \in DOMAIN writes :
         k[1] = "milestone"
            => \A item \in Range(remote.issues[k[2]]) :
                  file_name(item.id, "issue") \in DOMAIN disk

\* C15 witness: a run was aborted by a socket error after it had put the
\* checkpoint of milestone 1 (an issue of two comments and a pull) and
\* before it put the others.
C15_Witness ==
    /\ pc = "crashed"
    /\ exc = "SocketError"
    /\ Len(remote.milestones) = 2
    /\ <<"milestone", 1>> \in DOMAIN writes
    /\ file_name(None, "milestone") \notin DOMAIN disk

ErrorMessages == {<<Message(e)>> : e \in Exceptions}

\* C16: a socket error raised by a remote call ends the run there, uncaught:
\* no message and no document is printed, no document is returned, no
\* archive exists, every checkpoint the run had put is on disk as put, and
\* from then on the run makes no remote call, invokes no guard and writes
\* nothing (only another process may start).
C16_SocketErrorAborts ==
    /\ [](exc = "SocketError" =>
            /\ pc = "crashed"
            /\ doc = <<>>
            /\ PrintedDocuments = {}
            /\ Range(stdout) \cap ErrorMessages = {}
            /\ ~zip_file.exists
            /\ \A k \in DOMAIN writes :
                 /\ file_name(k[2], k[1]) \in DOMAIN disk
                 /\ disk[file_name(k[2], k[1])] = json_dump(writes[k]))
    /\ [][exc = "SocketError" =>
             \/ run' = run + 1
             \/ (call' = call /\ guard' = guard /\ disk' = disk
                   /\ zip_file' = zip_file /\ stdout' = stdout)]_vars

\* C16 witness: in archive mode a page request raised a socket error after
\* the run had put checkpoints; the temp JSON file is left empty.
C16_Witness ==
    /\ exc = "SocketError"
    /\ pc = "crashed"
    /\ ~args.print_json
    /\ call[1].name = "get_page"
    /\ DOMAIN writes # {}
    /\ json_file = [exists |-> TRUE, text |-> <<>>]

\* C17: whenever the archive exists, the run is in archive mode, the export
\* has returned its document with an entry for every remote milestone and
\* for 'none', the temp JSON file holds that whole document and the
\* archive's member is that file's text; before the export has returned the
\* temp JSON file, if it exists, is empty.
C17_ArchiveAfterExport ==
    /\ zip_file.exists =>
         /\ ~args.print_json
         /\ exc = ""
         /\ doc # <<>>
         /\ json_file.exists
         /\ json_file.text = json_dump(doc[1])
         /\ zip_file.text = json_file.text
         /\ LET member == json_load(zip_file.text) IN
              /\ member = doc[1]
              /\ Len(member.milestones) = Len(RemoteKeys)
              /\ \A n \in DOMAIN RemoteKeys : member.milestones[n].id = RemoteKeys[n]
    /\ (json_file.exists /\ doc = <<>>) => json_file.text = <<>>

\* C17 witness: the archive was written with the whole document of the
\* two-milestone repository.
C17_Witness ==
    /\ zip_file.exists
    /\ pc = "exit"
    /\ Len(json_load(zip_file.text).milestones) = 3
    /\ Len(json_load(zip_file.text).milestones[1].issues[1].comments) = 2
====
